---- MODULE Spec2Model ----
(***************************************************************************)
(* Model of dver (dotnet-version-manager), src/src/main.rs.                *)
(*                                                                         *)
(* Text is a sequence of one-character strings.  A path is kept as the     *)
(* text std::path::PathBuf holds; parent(), starts_with() and the          *)
(* comparison of paths work on its components, as in std::path.            *)
(***************************************************************************)
EXTENDS Integers, Sequences, FiniteSets, TLC

VARIABLES
    cmd,      \* the parsed command line (Cli.command)
    pc,       \* position of main()
    stdout,   \* what `dotnet --list-sdks` prints in this run
    sdks,     \* inventory: result of list_installed_sdks()
    roots,    \* main: roots
    targets,  \* main: targets
    idx,      \* number of targets the removal loop has consumed
    dirs,     \* directories existing on disk (absolute, resolved)
    dirs0,    \* the directories that existed when the command started
    gj,       \* content of ./global.json (NoFile when absent)
    bak,      \* content of ./global.json.bak (NoFile when absent)
    prev,     \* what ./global.json and .bak held when the last `use` started
    tmp,      \* TRUE while the temporary installer script exists
    log,      \* what the run printed / met, in order
    exit,     \* process exit code (-1 while running)
    runs      \* number of invocations of the program so far

vars == <<cmd, pc, stdout, sdks, roots, targets, idx, dirs, dirs0,
          gj, bak, prev, tmp, log, exit, runs>>

----------------------------------------------------------------------------
(* Bounds *)

MaxLines == 2      \* lines of `dotnet --list-sdks` output
MaxUses  == 3      \* consecutive `use` invocations in one directory
MaxChannels == 2   \* channels in the remote releases index

----------------------------------------------------------------------------
(* Text helpers: str::trim, split_whitespace, split_once, lines, ...       *)

NL == "\n"
CR == "\r"

IsWs(c) == c \in {" ", "\t", NL, CR}

RECURSIVE TrimStart(_)
TrimStart(s) ==
    IF s = <<>> THEN <<>>
    ELSE IF IsWs(Head(s)) THEN TrimStart(Tail(s)) ELSE s

RECURSIVE TrimEnd(_)
TrimEnd(s) ==
    IF s = <<>> THEN <<>>
    ELSE IF IsWs(s[Len(s)]) THEN TrimEnd(SubSeq(s, 1, Len(s) - 1)) ELSE s

Trim(s) == TrimEnd(TrimStart(s))

RECURSIVE TrimEndMatches(_, _)
TrimEndMatches(s, c) ==
    IF s = <<>> THEN <<>>
    ELSE IF s[Len(s)] = c THEN TrimEndMatches(SubSeq(s, 1, Len(s) - 1), c)
    ELSE s

Contains(s, c) == \E i \in 1..Len(s) : s[i] = c

\* index of the first occurrence of c in s, 0 when there is none
FirstIndex(s, c) ==
    IF Contains(s, c)
    THEN CHOOSE i \in 1..Len(s) : s[i] = c /\ \A j \in 1..(i - 1) : s[j] # c
    ELSE 0

StrStartsWith(s, p) == Len(p) <= Len(s) /\ SubSeq(s, 1, Len(p)) = p

\* split_whitespace().next().unwrap_or("")
FirstToken(s) ==
    LET t == TrimStart(s)
        ends == {i \in 1..Len(t) : IsWs(t[i])}
    IN  IF t = <<>> THEN <<>>
        ELSE IF ends = {} THEN t
        ELSE SubSeq(t, 1, (CHOOSE i \in ends : \A j \in ends : i <= j) - 1)

\* str::lines: split at "\n", an optional "\r" before it is dropped, and a
\* final line need not be terminated
RECURSIVE Lines(_)
Lines(text) ==
    IF text = <<>> THEN <<>>
    ELSE LET k == FirstIndex(text, NL) IN
         IF k = 0 THEN <<text>>
         ELSE LET raw  == SubSeq(text, 1, k - 1)
                  line == IF raw # <<>> /\ raw[Len(raw)] = CR
                          THEN SubSeq(raw, 1, Len(raw) - 1) ELSE raw
              IN  <<line>> \o Lines(SubSeq(text, k + 1, Len(text)))

----------------------------------------------------------------------------
(* Paths: std::path on a Unix host                                         *)

SEP == "/"
RootDir   == <<"/">>
CurDir    == <<".">>
ParentDir == <<".", ".">>

\* the "/"-separated pieces of s, empty pieces included; cur is the piece
\* being read
RECURSIVE SplitFrom(_, _)
SplitFrom(s, cur) ==
    IF s = <<>> THEN <<cur>>
    ELSE IF Head(s) = SEP THEN <<cur>> \o SplitFrom(Tail(s), <<>>)
    ELSE SplitFrom(Tail(s), Append(cur, Head(s)))

SplitSep(s) == SplitFrom(s, <<>>)

\* the pieces that are components: no empty piece, and "." only where
\* leading is TRUE
RECURSIVE KeepParts(_, _)
KeepParts(parts, leading) ==
    IF parts = <<>> THEN <<>>
    ELSE (IF Head(parts) = <<>> \/ (Head(parts) = CurDir /\ ~leading)
          THEN <<>> ELSE <<Head(parts)>>)
         \o KeepParts(Tail(parts), FALSE)

\* Path::components: a leading RootDir, no empty pieces, "." kept only as
\* the first component of a relative path
Components(s) ==
    IF s # <<>> /\ s[1] = SEP
    THEN <<RootDir>> \o KeepParts(SplitSep(s), FALSE)
    ELSE KeepParts(SplitSep(s), TRUE)

\* PathBuf::push on Unix: an absolute argument replaces the path, otherwise
\* it is appended after a separator
Push(buf, p) ==
    IF p # <<>> /\ p[1] = SEP THEN p
    ELSE IF buf = <<>> \/ buf[Len(buf)] = SEP THEN buf \o p
    ELSE buf \o <<SEP>> \o p

\* Path::parent as a set: empty for None, else the parent's components
Parent(path) ==
    LET c == Components(path) IN
    IF c = <<>> \/ c[Len(c)] = RootDir THEN {}
    ELSE {SubSeq(c, 1, Len(c) - 1)}

\* Path::starts_with, on components
StartsWith(pc1, pc2) == Len(pc2) <= Len(pc1) /\ SubSeq(pc1, 1, Len(pc2)) = pc2

----------------------------------------------------------------------------
(* list_installed_sdks: the parsing loop                                   *)

\* the record one line contributes: <<>> or a one-element sequence
ParseLine(line) ==
    LET k == FirstIndex(line, "[") IN
    IF k = 0 THEN <<>>
    ELSE LET ver_part  == SubSeq(line, 1, k - 1)
             path_part == SubSeq(line, k + 1, Len(line))
             version   == FirstToken(Trim(ver_part))
             base      == Trim(TrimEndMatches(Trim(path_part), "]"))
         IN  IF version = <<>> \/ base = <<>> THEN <<>>
             ELSE <<[version |-> version, path |-> Push(base, version)]>>

\* a parsing loop that ends at the first line it cannot use
RECURSIVE ParseLines_StopAtBad(_)
ParseLines_StopAtBad(ls) ==
    IF ls = <<>> \/ ParseLine(Head(ls)) = <<>> THEN <<>>
    ELSE ParseLine(Head(ls)) \o ParseLines_StopAtBad(Tail(ls))

RECURSIVE ParseLines(_)
ParseLines(ls) ==
    IF ls = <<>> THEN <<>>
    ELSE ParseLine(Head(ls)) \o ParseLines(Tail(ls))

ParseSdks(text) == ParseLines(Lines(text))

----------------------------------------------------------------------------
(* Ordering of paths (impl Ord for Path): components compared in turn;     *)
(* RootDir < CurDir < ParentDir < Normal, Normal by bytes                  *)

CharCode ==
    [c \in {"\t", "\n", "\r", " ", ".", "/", "0", "1", "4", "6", "8", "9",
            "[", "]", "a", "b", "e", "j", "r", "w", "x"} |->
        CASE c = "\t" -> 9  [] c = "\n" -> 10 [] c = "\r" -> 13
          [] c = " "  -> 32 [] c = "."  -> 46 [] c = "/"  -> 47
          [] c = "0"  -> 48 [] c = "1"  -> 49 [] c = "4"  -> 52
          [] c = "6"  -> 54 [] c = "8"  -> 56 [] c = "9"  -> 57
          [] c = "["  -> 91 [] c = "]"  -> 93 [] c = "a"  -> 97
          [] c = "b"  -> 98 [] c = "e"  -> 101 [] c = "j" -> 106
          [] c = "r"  -> 114 [] c = "w" -> 119 [] c = "x" -> 120]

\* byte-wise a < b of two names
RECURSIVE StrLess(_, _)
StrLess(a, b) ==
    IF b = <<>> THEN FALSE
    ELSE IF a = <<>> THEN TRUE
    ELSE IF Head(a) = Head(b) THEN StrLess(Tail(a), Tail(b))
    ELSE CharCode[Head(a)] < CharCode[Head(b)]

ComponentRank(c) ==
    IF c = RootDir THEN 1 ELSE IF c = CurDir THEN 2
    ELSE IF c = ParentDir THEN 3 ELSE 4

ComponentLess(c, d) ==
    IF ComponentRank(c) # ComponentRank(d)
    THEN ComponentRank(c) < ComponentRank(d)
    ELSE ComponentRank(c) = 4 /\ StrLess(c, d)

RECURSIVE PathLess(_, _)
PathLess(p, q) ==
    IF q = <<>> THEN FALSE
    ELSE IF p = <<>> THEN TRUE
    ELSE IF Head(p) = Head(q) THEN PathLess(Tail(p), Tail(q))
    ELSE ComponentLess(Head(p), Head(q))

\* Vec::sort
RECURSIVE Insert(_, _)
Insert(x, s) ==
    IF s = <<>> THEN <<x>>
    ELSE IF PathLess(x, Head(s)) THEN <<x>> \o s
    ELSE <<Head(s)>> \o Insert(x, Tail(s))

RECURSIVE Sort(_)
Sort(s) == IF s = <<>> THEN <<>> ELSE Insert(Head(s), Sort(Tail(s)))

\* Vec::dedup: drops an element equal to the one before it
RECURSIVE Dedup(_)
Dedup(s) ==
    IF Len(s) <= 1 THEN s
    ELSE IF s[1] = s[2] THEN Dedup(Tail(s))
    ELSE <<s[1]>> \o Dedup(Tail(s))

----------------------------------------------------------------------------
(* Commands::Uninstall: roots, targets, the containment check              *)

\* Option::None of `version`; no text typed on the command line equals it
None == <<"None">>

\* filter_map(|(_, p)| p.parent()) .collect()
RECURSIVE ParentsOf(_)
ParentsOf(inv) ==
    IF inv = <<>> THEN <<>>
    ELSE LET pp == Parent(Head(inv).path) IN
         (IF pp = {} THEN <<>> ELSE <<CHOOSE x \in pp : TRUE>>)
         \o ParentsOf(Tail(inv))

Roots(inv) == Dedup(Sort(ParentsOf(inv)))

\* a major selector matched as a bare prefix, without the '.'
Selected_NoDot(ver, v) ==
    IF Contains(v, ".") THEN ver = v
    ELSE StrStartsWith(ver, v)

\* the filter of one entry for `uninstall <v>` (no --all)
Selected(ver, v) ==
    IF Contains(v, ".") THEN ver = v
    ELSE StrStartsWith(ver, v \o <<".">>)

\* any version argument treated like --all
SelectTargets_Any(inv, version, all) ==
    IF all \/ version # None THEN inv ELSE <<>>

SelectTargets(inv, version, all) ==
    IF all THEN inv
    ELSE IF version # None THEN SelectSeq(inv, LAMBDA e : Selected(e.version, version))
    ELSE <<>>

\* no containment check at all
IsUnderRoot_NoCheck(rs, path) == TRUE

\* a check that accepts only the roots themselves
IsUnderRoot_Exact(rs, path) ==
    \E i \in 1..Len(rs) : Components(path) = rs[i]

\* roots.iter().any(|r| path.starts_with(r))
IsUnderRoot(rs, path) ==
    \E i \in 1..Len(rs) : StartsWith(Components(path), rs[i])

----------------------------------------------------------------------------
(* The directory tree.  A directory is the sequence of names from "/".     *)

Cwd == << <<"w">> >>

Front(s) == SubSeq(s, 1, Len(s) - 1)

StepDir(cur, c) ==
    IF c = RootDir THEN <<>>
    ELSE IF c = CurDir THEN cur
    ELSE IF c = ParentDir THEN (IF cur = <<>> THEN <<>> ELSE Front(cur))
    ELSE Append(cur, c)

\* path resolution: every directory on the way has to exist
RECURSIVE Walk(_, _, _)
Walk(cur, comps, fs) ==
    IF cur \notin fs THEN {}
    ELSE IF comps = <<>> THEN {cur}
    ELSE Walk(StepDir(cur, Head(comps)), Tail(comps), fs)

Resolve(path, fs) == Walk(Cwd, Components(path), fs)

\* Path::exists
Exists(path, fs) == Resolve(path, fs) # {}

IsPrefix(a, b) == Len(a) <= Len(b) /\ SubSeq(b, 1, Len(a)) = a

Subtree(d, fs) == {x \in fs : IsPrefix(d, x)}

\* rmdir of the directory itself works only on a named, non-root directory
LastPiece(path) ==
    LET ne == SelectSeq(SplitSep(path), LAMBDA x : x # <<>>) IN
    IF ne = <<>> THEN <<>> ELSE ne[Len(ne)]

CanRmdir(path, fs) ==
    /\ LastPiece(path) \notin {<<>>, CurDir, ParentDir}
    /\ Resolve(path, fs) # {<<>>}

\* what a remove_dir_all that returns Err may have removed on the way:
\* any part of the tree below the directory, never the directory itself
PartialRemovals(path, fs) ==
    LET d     == CHOOSE x \in Resolve(path, fs) : TRUE
        below == Subtree(d, fs) \ {d}
    IN  {fs \ gone : gone \in {g \in SUBSET below :
                                  \A x \in g : Subtree(x, fs) \subseteq g}}

----------------------------------------------------------------------------
(* Inputs                                                                  *)

V8_0_406 == <<"8", ".", "0", ".", "4", "0", "6">>
V8_1_0   == <<"8", ".", "1", ".", "0">>
V18_0_0  == <<"1", "8", ".", "0", ".", "0">>
V9_0_100 == <<"9", ".", "0", ".", "1", "0", "0">>
V8       == <<"8">>
V8_1     == <<"8", ".", "1">>
VUp      == <<"8", ".", "0", "/", ".", ".">>
VAbs     == <<"/", "e">>
VRoot    == <<"/">>
VDot     == <<".">>
VSub     == <<"a", "/", "b">>
BaseR    == <<"/", "r">>
BaseIn   == BaseR \o <<"/">> \o V8_0_406
BaseRel  == <<"r">>
Junk     == <<"j">>

\* one line in the format of `dotnet --list-sdks`
Line(v, b) == v \o <<" ", "[">> \o b \o <<"]">>

InventoryLines ==
    { Line(V8_0_406, BaseR), Line(V8_1_0, BaseR), Line(V18_0_0, BaseR),
      Line(V8, BaseR), Line(V9_0_100, BaseIn), Line(VUp, BaseR),
      Line(VRoot, BaseR), Line(VAbs, BaseR), Line(VDot, BaseRel), Junk }

Selectors == {V8, V8_0_406, V8_1}

\* lines that exercise every branch of the parsing loop
ParserLines ==
    { Line(v, b) : v \in {V8_1_0, V8, VUp, VAbs, VRoot, VDot, VSub},
                   b \in {BaseR, BaseR \o <<"/">>, BaseRel} }
    \cup { Junk, <<>>, <<"[">>, <<" ", "[", "/", "r", "]">>,
           <<"8", " ", "[", " ", "]">>, <<"8", " ", "[", "]", "]">>,
           <<" ", "8", "\t", "x", " ", "[", " ", "/", "r", " ", "]", " ">>,
           <<"8", "[", "/", "r">>, <<"8", " ", "[", "/", "r", "]", "]">>,
           <<"8", " ", "[", "/", "r", "]", "\r">>,
           <<"8", " ", "[", "[", "r", "]">> }

\* the texts of at most n lines, each line terminated
RECURSIVE TextsOf(_, _)
TextsOf(lines, n) ==
    IF n = 0 THEN {<<>>}
    ELSE LET shorter == TextsOf(lines, n - 1) IN
         shorter \cup {t \o l \o <<NL>> : t \in shorter, l \in lines}

\* the tree after "mkdir -p path"
RECURSIVE MkWalk(_, _, _)
MkWalk(cur, comps, fs) ==
    IF comps = <<>> THEN fs \cup {cur}
    ELSE MkWalk(StepDir(cur, Head(comps)), Tail(comps), fs \cup {cur})

\* a tree holding the install directory of every entry but the missing one
RECURSIVE TreeFor(_, _, _)
TreeFor(inv, i, missing) ==
    IF i = 0 THEN {<<>>, Cwd}
    ELSE LET fs == TreeFor(inv, i - 1, missing) IN
         IF i = missing THEN fs
         ELSE MkWalk(Cwd, Components(inv[i].path), fs)

\* file contents
NoFile  == <<"NoFile">>
Other   == <<"Other">>      \* a global.json somebody else wrote
Old     == <<"Old">>        \* a backup left by something else
Empty   == <<>>             \* a file created and not written yet
Partial == <<"Partial">>    \* a file a failed write left behind
\* json!({"sdk": {"version": version}}) as to_writer_pretty writes it
Pin(v)  == <<"{", "sdk", ":", "{", "version", ":">> \o v \o <<"}", "}">>

UninstallCmds ==
    [name : {"uninstall"}, version : Selectors \cup {None}, all : BOOLEAN]
UseCmds == [name : {"use"}, version : {V9_0_100, V8_0_406}]
InstallCmds ==
    [name : {"install"}, lts : BOOLEAN, version : {None, V8_0_406}]
RemoteCmds == [name : {"remote"}, lts : BOOLEAN]
PlainCmds == [name : {"current", "list", "doctor"}]

Entry(k) == [kind |-> k, ver |-> <<>>, path |-> <<>>]
TargetEntry(k, t) == [kind |-> k, ver |-> t.version, path |-> t.path]

----------------------------------------------------------------------------
(* Initial states: one invocation of the program                           *)

Idle ==
    /\ pc = "start"
    /\ sdks = <<>> /\ roots = <<>> /\ targets = <<>> /\ idx = 0
    /\ prev = [gj |-> NoFile, bak |-> NoFile]
    /\ tmp = FALSE /\ log = <<>> /\ exit = -1 /\ runs = 1

InitUninstall ==
    /\ cmd \in UninstallCmds
    /\ stdout \in TextsOf(InventoryLines, MaxLines)
    /\ \E missing \in 0..MaxLines :
          dirs = TreeFor(ParseSdks(stdout), Len(ParseSdks(stdout)), missing)
    /\ dirs0 = dirs
    /\ gj = NoFile /\ bak = NoFile
    /\ Idle

InitUse ==
    /\ cmd \in UseCmds
    /\ stdout = <<>>
    /\ dirs = {<<>>, Cwd} /\ dirs0 = dirs
    /\ gj \in {NoFile, Other} /\ bak \in {NoFile, Old}
    /\ Idle

InitOther ==
    /\ cmd \in InstallCmds \cup RemoteCmds \cup PlainCmds
    /\ stdout \in (IF cmd.name = "list" THEN TextsOf({Line(V8, BaseR), Junk}, 1)
                   ELSE {<<>>})
    /\ dirs = {<<>>, Cwd} /\ dirs0 = dirs
    /\ gj = NoFile /\ bak = NoFile
    /\ Idle

Init == InitUninstall \/ InitUse \/ InitOther

Finish(code) == pc' = "done" /\ exit' = code

----------------------------------------------------------------------------
(* Commands::Uninstall                                                     *)

UninstallVars == <<cmd, stdout, dirs0, gj, bak, prev, tmp, runs>>

\* list_installed_sdks: Command::output() returns Err
QueryNoStart ==
    /\ pc = "start" /\ cmd.name = "uninstall"
    /\ log' = Append(log, Entry("QueryNoStart"))
    /\ Finish(1)
    /\ UNCHANGED <<UninstallVars, sdks, roots, targets, idx, dirs>>

\* list_installed_sdks: the exit status is not success
QueryNonSuccess ==
    /\ pc = "start" /\ cmd.name = "uninstall"
    /\ log' = Append(log, Entry("QueryNonSuccess"))
    /\ Finish(1)
    /\ UNCHANGED <<UninstallVars, sdks, roots, targets, idx, dirs>>

\* the inventory is parsed, roots and targets are computed
UninstallSelect ==
    /\ pc = "start" /\ cmd.name = "uninstall"
    /\ sdks' = ParseSdks(stdout)
    /\ roots' = Roots(sdks')
    /\ targets' = SelectTargets(sdks', cmd.version, cmd.all)
    /\ idx' = 0
    /\ LET notice == IF ~cmd.all /\ cmd.version = None
                     THEN <<Entry("ProvideVersion")>> ELSE <<>>
       IN  IF targets' = <<>>
           THEN /\ log' = log \o notice \o <<Entry("NoMatching")>>
                /\ Finish(0)
           ELSE /\ log' = log \o notice
                /\ pc' = "loop" /\ exit' = exit
    /\ UNCHANGED <<UninstallVars, dirs>>

\* the loop moves on to the next target, or main returns Ok(())
NextTarget ==
    /\ idx' = idx + 1
    /\ IF idx + 1 = Len(targets) THEN Finish(0)
       ELSE pc' = "loop" /\ exit' = exit

InLoop == pc = "loop" /\ cmd.name = "uninstall" /\ idx < Len(targets)

SkipTarget ==
    /\ InLoop
    /\ ~IsUnderRoot(roots, targets[idx + 1].path)
    /\ log' = Append(log, TargetEntry("Skipping", targets[idx + 1]))
    /\ NextTarget
    /\ UNCHANGED <<UninstallVars, sdks, roots, targets, dirs>>

TargetNotFound ==
    /\ InLoop
    /\ IsUnderRoot(roots, targets[idx + 1].path)
    /\ ~Exists(targets[idx + 1].path, dirs)
    /\ log' = Append(log, TargetEntry("NotFound", targets[idx + 1]))
    /\ NextTarget
    /\ UNCHANGED <<UninstallVars, sdks, roots, targets, dirs>>

RemoveOk ==
    /\ InLoop
    /\ IsUnderRoot(roots, targets[idx + 1].path)
    /\ Exists(targets[idx + 1].path, dirs)
    /\ CanRmdir(targets[idx + 1].path, dirs)
    /\ dirs' = dirs \ UNION {Subtree(d, dirs) :
                                d \in Resolve(targets[idx + 1].path, dirs)}
    /\ log' = Append(log, TargetEntry("Removed", targets[idx + 1]))
    /\ NextTarget
    /\ UNCHANGED <<UninstallVars, sdks, roots, targets>>

\* a failed removal that ends the command with an error
RemoveFail_Abort ==
    /\ InLoop
    /\ IsUnderRoot(roots, targets[idx + 1].path)
    /\ Exists(targets[idx + 1].path, dirs)
    /\ dirs' \in PartialRemovals(targets[idx + 1].path, dirs)
    /\ log' = Append(log, TargetEntry("FailedRemove", targets[idx + 1]))
    /\ idx' = idx
    /\ Finish(1)
    /\ UNCHANGED <<UninstallVars, sdks, roots, targets>>

RemoveFail ==
    /\ InLoop
    /\ IsUnderRoot(roots, targets[idx + 1].path)
    /\ Exists(targets[idx + 1].path, dirs)
    /\ dirs' \in PartialRemovals(targets[idx + 1].path, dirs)
    /\ log' = Append(log, TargetEntry("FailedRemove", targets[idx + 1]))
    /\ NextTarget
    /\ UNCHANGED <<UninstallVars, sdks, roots, targets>>

----------------------------------------------------------------------------
(* Commands::Use                                                           *)

\* a backup that is created but never filled
Backup_CreatesEmpty(gjv, bakv) ==
    IF gjv = NoFile THEN {[bak |-> bakv, ev |-> <<>>]}
    ELSE {[bak |-> Empty, ev |-> <<Entry("BackupOk")>>],
          [bak |-> bakv, ev |-> <<Entry("BackupFailed")>>],
          [bak |-> Partial, ev |-> <<Entry("BackupFailed")>>]}

\* the results fs::copy can leave in global.json.bak, with what happened
Backup(gjv, bakv) ==
    IF gjv = NoFile THEN {[bak |-> bakv, ev |-> <<>>]}
    ELSE {[bak |-> gjv, ev |-> <<Entry("BackupOk")>>],
          [bak |-> bakv, ev |-> <<Entry("BackupFailed")>>],
          [bak |-> Partial, ev |-> <<Entry("BackupFailed")>>]}

UseCmd ==
    /\ pc = "start" /\ cmd.name = "use"
    /\ prev' = [gj |-> gj, bak |-> bak]
    /\ \/ /\ gj' = gj /\ bak' = bak        \* current_dir() fails
          /\ log' = Append(log, Entry("CwdFail"))
          /\ Finish(1)
       \/ \E b \in Backup(gj, bak) :
             /\ bak' = b.bak
             /\ \/ /\ gj' = gj                 \* File::create fails
                   /\ log' = log \o b.ev \o <<Entry("PinCreateFail")>>
                   /\ Finish(1)
                \/ /\ gj' \in {Empty, Partial} \* to_writer_pretty fails
                   /\ log' = log \o b.ev \o <<Entry("PinSerializeFail")>>
                   /\ Finish(1)
                \/ /\ gj' = Pin(cmd.version)
                   /\ log' = log \o b.ev \o <<Entry("PinSet")>>
                   /\ Finish(0)
    /\ UNCHANGED <<cmd, stdout, sdks, roots, targets, idx, dirs, dirs0, tmp,
                   runs>>

\* the program is run again in the same directory
UseAgain ==
    /\ pc = "done" /\ cmd.name = "use" /\ runs < MaxUses
    /\ cmd' \in UseCmds
    /\ pc' = "start" /\ exit' = -1 /\ log' = <<>> /\ runs' = runs + 1
    /\ UNCHANGED <<stdout, sdks, roots, targets, idx, dirs, dirs0, gj, bak,
                   prev, tmp>>

----------------------------------------------------------------------------
(* Commands::Install                                                       *)

InstallVars == <<cmd, stdout, sdks, roots, targets, idx, dirs, dirs0, gj, bak,
                 prev, runs>>

\* is_dotnet_installed() holds: `dotnet --version` is run once more
AlreadyInstalled ==
    /\ pc = "start" /\ cmd.name = "install"
    /\ \/ /\ log' = Append(log, Entry("VersionNoStart"))
          /\ Finish(1)
       \/ /\ log' = Append(log, Entry("AlreadyInstalled"))
          /\ Finish(0)
    /\ UNCHANGED <<InstallVars, tmp>>

\* download_install_script
Download ==
    /\ pc = "start" /\ cmd.name = "install"
    /\ \/ /\ \E k \in {"FetchFail", "HttpNonSuccess", "ScriptCreateFail"} :
                log' = Append(log, Entry(k))
          /\ tmp' = tmp
          /\ Finish(1)
       \/ /\ log' = Append(log, Entry("ScriptWriteFail"))
          /\ tmp' = TRUE
          /\ Finish(1)
       \/ /\ log' = log \o <<Entry("ScriptWritten"), Entry("ChmodFail")>>
          /\ tmp' = TRUE
          /\ Finish(1)
       \/ /\ log' = Append(log, Entry("ScriptWritten"))
          /\ tmp' = TRUE
          /\ pc' = "invoke" /\ exit' = exit
    /\ UNCHANGED InstallVars

\* install_dotnet from command.output() on
Invoke ==
    /\ pc = "invoke"
    /\ \/ /\ log' = Append(log, Entry("InstallerNoStart"))
          /\ tmp' = tmp                  \* `?` returns before remove_file
          /\ Finish(1)
       \/ /\ log' = Append(log, Entry("InstallerFail"))
          /\ tmp' = FALSE
          /\ Finish(1)
       \/ /\ log' = Append(log, Entry("Installed"))
          /\ tmp' = FALSE
          /\ Finish(0)
    /\ UNCHANGED InstallVars

----------------------------------------------------------------------------
(* Commands::Current, List, Doctor, Remote                                 *)

OtherVars == <<cmd, stdout, sdks, roots, targets, idx, dirs, dirs0, gj, bak,
               prev, tmp, runs>>

CurrentCmd ==
    /\ pc = "start" /\ cmd.name = "current"
    /\ \/ log' = Append(log, Entry("VersionNoStart")) /\ Finish(1)
       \/ log' = Append(log, Entry("VersionNonSuccess")) /\ Finish(0)
       \/ log' = Append(log, Entry("CurrentVersion")) /\ Finish(0)
    /\ UNCHANGED OtherVars

\* filter_map(|line| line.split_whitespace().next())
RECURSIVE FirstTokens(_)
FirstTokens(ls) ==
    IF ls = <<>> THEN <<>>
    ELSE (IF FirstToken(Head(ls)) = <<>> THEN <<>> ELSE <<FirstToken(Head(ls))>>)
         \o FirstTokens(Tail(ls))

\* versions.sort()
RECURSIVE InsertStr(_, _)
InsertStr(x, s) ==
    IF s = <<>> THEN <<x>>
    ELSE IF StrLess(x, Head(s)) THEN <<x>> \o s
    ELSE <<Head(s)>> \o InsertStr(x, Tail(s))

RECURSIVE SortStr(_)
SortStr(s) == IF s = <<>> THEN <<>> ELSE InsertStr(Head(s), SortStr(Tail(s)))

\* println!("{}", v) for every element
RECURSIVE PrintLines(_)
PrintLines(s) ==
    IF s = <<>> THEN <<>> ELSE Head(s) \o <<NL>> \o PrintLines(Tail(s))

\* what `list` prints: the first token of every line, sorted, once each
ListedVersions(text) == PrintLines(Dedup(SortStr(FirstTokens(Lines(text)))))

ListCmd ==
    /\ pc = "start" /\ cmd.name = "list"
    /\ \/ log' = Append(log, Entry("QueryNoStart")) /\ Finish(1)
       \/ log' = Append(log, Entry("QueryNonSuccess")) /\ Finish(0)
       \/ /\ log' = Append(log, [kind |-> "Listed", ver |-> <<>>,
                                 path |-> ListedVersions(stdout)])
          /\ Finish(0)
    /\ UNCHANGED OtherVars

DoctorCmd ==
    /\ pc = "start" /\ cmd.name = "doctor"
    /\ \E k \in {"DotnetMissing", "DoctorDone"} : log' = Append(log, Entry(k))
    /\ Finish(0)
    /\ UNCHANGED OtherVars

Channels ==
    [type : {"lts", "sts"},
     outcome : {"Ok", "FetchFail", "HttpNonSuccess", "BadJson"}]

\* the loop of list_remote_patch_sdks over the channels of the index
RECURSIVE ChannelLog(_, _)
ChannelLog(chs, lts) ==
    IF chs = <<>> THEN <<Entry("RemoteListed")>>
    ELSE LET c == Head(chs) IN
         IF lts /\ c.type # "lts" THEN ChannelLog(Tail(chs), lts)
         ELSE IF c.outcome \in {"Ok", "HttpNonSuccess"}
              THEN <<Entry(c.outcome)>> \o ChannelLog(Tail(chs), lts)
              ELSE <<Entry(c.outcome), Entry("RemoteFailed")>>

RemoteCmd ==
    /\ pc = "start" /\ cmd.name = "remote"
    /\ \/ \E k \in {"FetchFail", "HttpNonSuccess", "BadJson"} :
             log' = log \o <<Entry(k), Entry("RemoteFailed")>>
       \/ \E n \in 0..MaxChannels : \E chs \in [1..n -> Channels] :
             log' = log \o ChannelLog(chs, cmd.lts)
    /\ Finish(0)
    /\ UNCHANGED OtherVars

----------------------------------------------------------------------------
(* The program, run once                                                   *)

Next ==
    \/ QueryNoStart \/ QueryNonSuccess \/ UninstallSelect
    \/ SkipTarget \/ TargetNotFound \/ RemoveOk \/ RemoveFail
    \/ UseCmd
    \/ AlreadyInstalled \/ Download \/ Invoke
    \/ CurrentCmd \/ ListCmd \/ DoctorCmd \/ RemoteCmd

Spec == Init /\ [][Next]_vars

(* `use` run again and again in one directory                              *)

NextUse == UseCmd \/ UseAgain

SpecUse == InitUse /\ [][NextUse]_vars

(* The parsing loop of list_installed_sdks on its own                      *)

InitParser ==
    /\ cmd = [name |-> "parse"]
    /\ stdout \in TextsOf(ParserLines, MaxLines)
    /\ dirs = {<<>>, Cwd} /\ dirs0 = dirs
    /\ gj = NoFile /\ bak = NoFile
    /\ Idle

ParseOutput ==
    /\ pc = "start" /\ cmd.name = "parse"
    /\ sdks' = ParseSdks(stdout)
    /\ pc' = "done"
    /\ UNCHANGED <<cmd, stdout, roots, targets, idx, dirs, dirs0, gj, bak,
                   prev, tmp, log, exit, runs>>

NextParser == ParseOutput

SpecParser == InitParser /\ [][NextParser]_vars

----------------------------------------------------------------------------
(* Properties of `uninstall`                                               *)

\* the run is in, or past, the removal loop of `uninstall`
Listed ==
    /\ cmd.name = "uninstall" /\ pc \in {"loop", "done"}
    /\ \A k \in DOMAIN log : log[k].kind \notin {"QueryNoStart", "QueryNonSuccess"}

\* the reports of the removal loop, one per target it has handled
TargetLog ==
    SelectSeq(log, LAMBDA e :
        e.kind \in {"Skipping", "NotFound", "Removed", "FailedRemove"})

\* C1: remove_dir_all is only called on a path that is equal to or below a
\* member of roots; roots holds, once each, exactly the parents of the
\* install paths of the whole inventory, whatever the selector; a target
\* below no root is reported as skipped and never handed to remove_dir_all.
C1_DeleteOnlyUnderRoots ==
    Listed =>
        LET parents == UNION {Parent(sdks[i].path) : i \in DOMAIN sdks}
            under(p) == \E r \in parents : StartsWith(Components(p), r)
        IN  /\ {roots[i] : i \in DOMAIN roots} = parents
            /\ \A i, j \in DOMAIN roots : i # j => roots[i] # roots[j]
            /\ \A k \in DOMAIN log :
                  log[k].kind \in {"Removed", "FailedRemove"} => under(log[k].path)
            /\ \A i \in DOMAIN TargetLog :
                  ~under(targets[i].path) =>
                      /\ TargetLog[i].kind = "Skipping"
                      /\ TargetLog[i].path = targets[i].path

\* a run with --all that skipped one target and removed another
C1_Witness ==
    /\ Listed /\ pc = "done"
    /\ \E k \in DOMAIN log : log[k].kind = "Skipping"
    /\ \E k \in DOMAIN log : log[k].kind = "Removed"
    /\ dirs # dirs0

\* C2: the loop handles the targets one by one in inventory order, each
\* exactly once; after a skip, an absent directory or a failed removal the
\* next target can still be handled, and the run ends only after the last
\* target, with exit code 0.
C2_SequentialBestEffort ==
    Listed =>
        /\ Len(TargetLog) = idx /\ idx <= Len(targets)
        /\ \A i \in 1..idx :
              /\ TargetLog[i].ver = targets[i].version
              /\ TargetLog[i].path = targets[i].path
        /\ targets = SelectSeq(sdks, LAMBDA e :
                         \E i \in DOMAIN targets : targets[i] = e)
        /\ pc = "done" => idx = Len(targets) /\ exit = 0
        /\ pc = "loop" =>
              /\ idx < Len(targets)
              /\ LET path == targets[idx + 1].path IN
                    \/ ~IsUnderRoot(roots, path)
                    \/ ~Exists(path, dirs)
                    \/ PartialRemovals(path, dirs) # {}

\* a batch whose first removal failed and whose second target was removed
C2_Witness ==
    /\ Listed /\ pc = "done"
    /\ Len(TargetLog) = 2
    /\ TargetLog[1].kind = "FailedRemove"
    /\ TargetLog[2].kind = "Removed"

\* C3: without --all, a selector with a '.' selects exactly the entries
\* whose version equals it, and a selector m without '.' exactly those whose
\* version is m, then '.', then anything: "8" selects 8.0.406 and 8.1.0 and
\* neither 18.0.0 nor 8, and "8.1" does not select 8.1.0.
C3_SelectorResolution ==
    (Listed /\ ~cmd.all /\ cmd.version # None) =>
        LET v == cmd.version
            dotted == \E i \in DOMAIN v : v[i] = "."
            same(ver) == Len(ver) = Len(v) /\ \A i \in DOMAIN v : ver[i] = v[i]
            major(ver) == /\ Len(ver) > Len(v)
                          /\ \A i \in DOMAIN v : ver[i] = v[i]
                          /\ ver[Len(v) + 1] = "."
            match(ver) == IF dotted THEN same(ver) ELSE major(ver)
            picked(ver) == \E i \in DOMAIN targets : targets[i].version = ver
        IN  /\ targets = SelectSeq(sdks, LAMBDA e : match(e.version))
            /\ \A i \in DOMAIN sdks :
                  /\ (v = V8 /\ sdks[i].version \in {V8_0_406, V8_1_0})
                        => picked(sdks[i].version)
                  /\ (v = V8 /\ sdks[i].version \in {V18_0_0, V8})
                        => ~picked(sdks[i].version)
                  /\ (v = V8_1 /\ sdks[i].version = V8_1_0)
                        => ~picked(sdks[i].version)

\* `uninstall 8` on an inventory holding 8.0.406 and 8: only 8.0.406 is a
\* target
C3_Witness ==
    /\ Listed /\ ~cmd.all /\ cmd.version = V8
    /\ \E i \in DOMAIN sdks : sdks[i].version = V8
    /\ \E i \in DOMAIN sdks : sdks[i].version = V8_0_406
    /\ Len(targets) = 1 /\ targets[1].version = V8_0_406

\* C10: a target whose install path has a parent always passes the
\* containment check; only a target without a parent can be skipped, so an
\* entry whose version token moved the path out of its base directory is
\* not rejected.
C10_CheckPassesWithParent ==
    Listed =>
        /\ \A i \in DOMAIN TargetLog :
              TargetLog[i].kind = "Skipping" => Parent(targets[i].path) = {}
        /\ (pc = "loop" /\ Parent(targets[idx + 1].path) # {})
              => IsUnderRoot(roots, targets[idx + 1].path)

\* the entry "/e [/r]" was removed: its path "/e" is not inside "/r"
C10_Witness ==
    /\ Listed
    /\ \E k \in DOMAIN log :
          /\ log[k].kind = "Removed" /\ log[k].ver = VAbs
          /\ ~StartsWith(Components(log[k].path), Components(BaseR))

\* C9 as stated: the directory of an entry the selector does not match
\* still exists with all its contents, and nothing is deleted when neither
\* a version nor --all is given.
C9_NonMatchingUntouched ==
    Listed =>
        LET v == cmd.version
            match(ver) ==
                \/ cmd.all
                \/ /\ v # None
                   /\ IF \E i \in DOMAIN v : v[i] = "." THEN ver = v
                      ELSE /\ Len(ver) > Len(v)
                           /\ SubSeq(ver, 1, Len(v)) = v
                           /\ ver[Len(v) + 1] = "."
        IN  /\ \A i \in DOMAIN sdks :
                  ~match(sdks[i].version) =>
                      \A d \in Resolve(sdks[i].path, dirs0) :
                          Subtree(d, dirs0) \subseteq dirs
            /\ (~cmd.all /\ v = None) => dirs = dirs0

\* C9 amended: of the directory of an entry the selector does not match,
\* only what lies at or below the directory a matching entry's install path
\* resolves to can be gone; nothing is deleted when neither a version nor
\* --all is given.
C9_NonMatchingOutsideTargets ==
    Listed =>
        LET v == cmd.version
            match(ver) ==
                \/ cmd.all
                \/ /\ v # None
                   /\ IF \E i \in DOMAIN v : v[i] = "." THEN ver = v
                      ELSE /\ Len(ver) > Len(v)
                           /\ SubSeq(ver, 1, Len(v)) = v
                           /\ ver[Len(v) + 1] = "."
            hit == UNION {Resolve(sdks[i].path, dirs0) :
                             i \in {j \in DOMAIN sdks : match(sdks[j].version)}}
            inHit(x) == \E t \in hit : IsPrefix(t, x)
        IN  /\ \A i \in DOMAIN sdks :
                  ~match(sdks[i].version) =>
                      \A d \in Resolve(sdks[i].path, dirs0) :
                          \A x \in Subtree(d, dirs0) : x \in dirs \/ inHit(x)
            /\ (~cmd.all /\ v = None) => dirs = dirs0

\* `uninstall 8` removed 8.0.406 and the directory of 18.0.0 is still there
C9_Witness ==
    /\ Listed /\ pc = "done" /\ ~cmd.all /\ cmd.version = V8
    /\ \E k \in DOMAIN log : log[k].kind = "Removed" /\ log[k].ver = V8_0_406
    /\ \E i \in DOMAIN sdks :
          /\ sdks[i].version = V18_0_0
          /\ Exists(sdks[i].path, dirs0) /\ Exists(sdks[i].path, dirs)

----------------------------------------------------------------------------
(* Properties of the inventory parser                                      *)

\* The format "<v> [<base>]" read by positions: v is the first run of
\* non-blank characters before the first '[', base is what follows the '['
\* without the blanks around it and without the closing run of ']'.
LineVersion(line) ==
    LET k      == CHOOSE i \in DOMAIN line :
                      line[i] = "[" /\ \A j \in 1..(i - 1) : line[j] # "["
        before == SubSeq(line, 1, k - 1)
        ink    == {i \in DOMAIN before : ~IsWs(before[i])}
    IN  IF ink = {} THEN <<>>
        ELSE LET s == CHOOSE i \in ink : \A j \in ink : i <= j
                 e == CHOOSE i \in ink :
                          /\ \A j \in s..i : j \in ink
                          /\ (i + 1) \notin ink
             IN  SubSeq(before, s, e)

LineBase(line) ==
    LET k     == CHOOSE i \in DOMAIN line :
                     line[i] = "[" /\ \A j \in 1..(i - 1) : line[j] # "["
        p     == SubSeq(line, k + 1, Len(line))
        ink   == {i \in DOMAIN p : ~IsWs(p[i])}
        \* the positions before the closing run of ']'
        inner == {i \in DOMAIN p : \E j \in ink : j >= i /\ p[j] # "]"}
        body  == ink \cap inner
    IN  IF body = {} THEN <<>>
        ELSE SubSeq(p, CHOOSE i \in body : \A j \in body : i <= j,
                       CHOOSE i \in body : \A j \in body : j <= i)

WellFormed(line) ==
    /\ \E i \in DOMAIN line : line[i] = "["
    /\ LineVersion(line) # <<>>
    /\ LineBase(line) # <<>>

\* C4: the parser returns, in line order and with duplicates, one record
\* (v, join(base, v)) for every line that has a '[', a version token and a
\* base, and nothing for any other line; a malformed line does not end the
\* parsing.
C4_ParserOutput ==
    pc = "done" =>
        LET good == SelectSeq(Lines(stdout), WellFormed)
            join(b, v) == IF v[1] = "/" THEN v
                          ELSE IF b[Len(b)] = "/" THEN b \o v
                          ELSE b \o <<"/">> \o v
        IN  /\ Len(sdks) = Len(good)
            /\ \A i \in DOMAIN good :
                  /\ sdks[i].version = LineVersion(good[i])
                  /\ sdks[i].path = join(LineBase(good[i]), LineVersion(good[i]))

\* a malformed line followed by a well-formed one, and a line given twice
C4_Witness ==
    /\ pc = "done"
    /\ \/ /\ Lines(stdout) = <<Junk, Line(V8_1_0, BaseR)>>
          /\ sdks = <<[version |-> V8_1_0, path |-> BaseR \o <<"/">> \o V8_1_0]>>
       \/ /\ Lines(stdout) = <<Line(V8, BaseR), Line(V8, BaseR)>>
          /\ Len(sdks) = 2 /\ sdks[1] = sdks[2]

\* C8: the parent of every record's install path is the base directory of
\* the line the record comes from.
C8_ParentIsBase ==
    pc = "done" =>
        LET good == SelectSeq(Lines(stdout), WellFormed) IN
        \A i \in DOMAIN sdks :
            i \in DOMAIN good =>
                Parent(sdks[i].path) = {Components(LineBase(good[i]))}

----------------------------------------------------------------------------
(* Properties of `use`                                                     *)

\* C5 as stated: after a `use` that wrote the pin, global.json holds the
\* pin; global.json.bak holds what global.json held before if it existed,
\* and is not created if it did not.
C5_BackupThenPin ==
    (pc = "done" /\ cmd.name = "use" /\ exit = 0) =>
        /\ gj = Pin(cmd.version)
        /\ prev.gj # NoFile => bak = prev.gj
        /\ prev.gj = NoFile => bak = prev.bak

\* C5 amended: after a `use` that exits with 0, global.json holds the pin;
\* if global.json existed and the copy succeeded, global.json.bak holds what
\* global.json held before; if it did not exist, no copy is attempted and
\* global.json.bak is as it was.
C5_BackupWhenCopied ==
    (pc = "done" /\ cmd.name = "use") =>
        LET copied == \E k \in DOMAIN log : log[k].kind = "BackupOk"
            tried  == \E k \in DOMAIN log :
                          log[k].kind \in {"BackupOk", "BackupFailed"}
        IN  /\ exit = 0 => gj = Pin(cmd.version)
            /\ (prev.gj # NoFile /\ copied) => bak = prev.gj
            /\ (prev.gj # NoFile /\ exit = 0) => tried
            /\ prev.gj = NoFile => (bak = prev.bak /\ ~tried)

\* a second `use`: the first pin is in the backup, the new pin in global.json
C5_Witness ==
    /\ pc = "done" /\ cmd.name = "use" /\ runs = 2 /\ exit = 0
    /\ prev.gj = Pin(V9_0_100)
    /\ bak = Pin(V9_0_100)
    /\ gj = Pin(V8_0_406)

----------------------------------------------------------------------------
(* Properties of the exit code and of `install`                            *)

\* C6: the exit code is not 0 when the run met a hard error, and is 0 when
\* it met only soft or no-op outcomes.
C6_ExitCode ==
    pc = "done" =>
        LET met(kinds) == \E k \in DOMAIN log : log[k].kind \in kinds
            hard == met({"QueryNoStart", "QueryNonSuccess", "FetchFail",
                         "HttpNonSuccess", "InstallerFail", "InstallerNoStart",
                         "PinCreateFail", "PinSerializeFail"})
            soft == met({"NoMatching", "ProvideVersion", "Skipping",
                         "NotFound", "FailedRemove"})
        IN  /\ hard => exit # 0
            /\ (soft /\ ~hard) => exit = 0

\* C7: when install_dotnet returns after the script was written and the
\* interpreter was invoked, the temporary script is gone.
C7_ScriptRemoved ==
    (pc = "done" /\ cmd.name = "install") =>
        LET met(kinds) == \E k \in DOMAIN log : log[k].kind \in kinds IN
        (met({"ScriptWritten"})
           /\ met({"InstallerNoStart", "InstallerFail", "Installed"}))
            => ~tmp

====
